---- MODULE Spec2Model ----
(***************************************************************************)
(* Authentication and session management of the Community Travel Platform *)
(* API (src/main.py): register, login and the bearer-token identity       *)
(* resolver get_current_user / me, over the "user" and "session"          *)
(* collections of the document store.                                     *)
(*                                                                         *)
(* Requests are served in parallel; every store call (find_one,           *)
(* insert_one) is atomic, a handler is a sequence of such calls.  Each    *)
(* action below is one handler segment up to and including one store call.*)
(*                                                                         *)
(* Strings that the code parses (the Authorization header, tokens) are    *)
(* sequences of atoms: an atom is either the space " " or a run of        *)
(* non-space characters.  Other strings (emails, names, passwords) are    *)
(* only compared and are TLA+ strings.                                    *)
(***************************************************************************)
EXTENDS Integers, Sequences, FiniteSets, TLC

VARIABLES users, sessions, now, oid, rng, pc, payload, local, resp,
          registered, issued

vars == <<users, sessions, now, oid, rng, pc, payload, local, resp,
          registered, issued>>

\* ---------------------------------------------------------------- bounds
MaxUsers == 2
MaxSessions == 2
MaxWeeks == 1

\* ------------------------------------------------------ program constants
\* timedelta(days=7); the clock counts days and is observed once a week
DAYS == 7

\* ---------------------------------------------------------------- inputs
Workers == {"w1", "w2"}
Names == {"Ana"}
Emails == {"ana@example.com", "bob@example.com"}
Passwords == {"s3cret", "wrong"}

\* Optional[...] values
None == [some |-> FALSE, val |-> <<>>]
Some(v) == [some |-> TRUE, val |-> v]

\* ------------------------------------------------------------- helpers
\* hashlib.sha256((salt + password).encode()).hexdigest(): the salt has a
\* fixed length (32 hex digits), so salt + password determines both parts;
\* the digest is taken as collision free.
sha256(salt, password) == <<"sha256", salt, password>>

\* fault: the digest is taken of the salt alone
hash_password_salt_only(password, salt, fresh_salt) ==
    LET s == IF salt.some /\ salt.val # "" THEN salt.val ELSE fresh_salt
    IN  [hashed |-> sha256(s, ""), salt |-> s]

\* hash_password(password, salt): a falsy salt is replaced by fresh_salt
hash_password(password, salt, fresh_salt) ==
    LET s == IF salt.some /\ salt.val # "" THEN salt.val ELSE fresh_salt
    IN  [hashed |-> sha256(s, password), salt |-> s]

\* str(ObjectId) and ObjectId(str): the 24 hex digit form of an identifier
str_oid(id) == <<"hex24", id>>

IsOidString(s) == Len(s) = 2 /\ s[1] = "hex24"

\* ObjectId(s) raises on anything but a valid identifier string
ObjectId(s) == IF IsOidString(s) THEN Some(s[2]) ELSE None

\* fault: the token generator is seeded the same on every call
token_urlsafe_fixed(n) == <<ToString(1)>>

\* secrets.token_urlsafe(32): a fresh url-safe string (no space, not empty);
\* n tokens were drawn before
token_urlsafe(n) == <<ToString(n + 1)>>

\* secrets.token_hex(16): a fresh string of 32 hex digits; n salts were
\* drawn before
token_hex(n) == ToString(n + 1)

\* str.lower() on the scheme words that occur
Lower(w) ==
    CASE w = "Bearer" -> "bearer"
      [] w = "BEARER" -> "bearer"
      [] w = "Token"  -> "token"
      [] OTHER        -> w

LowerStr(s) == [i \in 1..Len(s) |-> Lower(s[i])]

\* index of the first " " of s, 0 when there is none
RECURSIVE FirstSpaceFrom(_, _)
FirstSpaceFrom(s, i) ==
    IF i > Len(s) THEN 0
    ELSE IF s[i] = " " THEN i
    ELSE FirstSpaceFrom(s, i + 1)

\* authorization.split(" ", 1): <<scheme, token>>, or <<s>> without a space
Split1(s) ==
    LET i == FirstSpaceFrom(s, 1)
    IN  IF i = 0 THEN <<s>>
        ELSE <<SubSeq(s, 1, i - 1), SubSeq(s, i + 1, Len(s))>>

\* HTTPException(status_code, detail)
HTTPException(status, detail) == [status |-> status, detail |-> detail]

\* UserPublic(id=..., name=..., email=..., avatar_url=...)
UserPublic(id, name, email, avatar_url) ==
    [id |-> id, name |-> name, email |-> email, avatar_url |-> avatar_url]

\* AuthResponse: {"token": token, "user": user_public}
AuthResponse(token, user_public) ==
    [status |-> 200, token |-> token, user |-> user_public]

\* fault: the lookup by email finds nothing
find_user_none(email) == {}

\* fault: the existence check filters on the wrong field
find_user_by_name(email) == {u \in users : u.name = email}

\* db["user"].find_one({"email": email}): the matching documents; find_one
\* returns one of them (no sort is given), None when the set is empty
find_user_by_email(email) == {u \in users : u.email = email}

\* fault: the user lookup has an empty filter
find_user_any(id) == users

\* db["user"].find_one({"_id": id})
find_user_by_id(id) == {u \in users : u._id = id}

\* db["session"].find_one({"token": token})
find_session_by_token(token) == {s \in sessions : s.token = token}

\* fault: the session names no user
session_doc_no_user(user_id, token, t) ==
    [user_id |-> <<"None">>, token |-> token,
     created_at |-> t, expires_at |-> t + DAYS]

\* the session document built by register and login
session_doc(user_id, token, t) ==
    [user_id |-> user_id, token |-> token,
     created_at |-> t, expires_at |-> t + DAYS]

\* the user document built by register
user_doc(name, email, hp, t) ==
    [name |-> name, email |-> email,
     password_hash |-> hp.hashed, password_salt |-> hp.salt,
     avatar_url |-> None, created_at |-> t, updated_at |-> t]

\* insert_one adds the store-assigned _id to the document
with_id(doc, id) ==
    [_id |-> id, name |-> doc.name, email |-> doc.email,
     password_hash |-> doc.password_hash, password_salt |-> doc.password_salt,
     avatar_url |-> doc.avatar_url, created_at |-> doc.created_at,
     updated_at |-> doc.updated_at]

\* fault: the insert skips a document whose email is stored already
insert_user_if_absent(doc, id) ==
    IF \E u \in users : u.email = doc.email
    THEN users
    ELSE users \cup {with_id(doc, id)}

\* db["user"].insert_one(user_doc): the collection afterwards
insert_user(doc, id) == users \cup {with_id(doc, id)}

\* fault: the insert drops the sessions that expired
insert_session_purging(doc) ==
    {s \in sessions : s.expires_at > doc.created_at} \cup {doc}

\* db["session"].insert_one(session_doc): the collection afterwards
insert_session(doc) == sessions \cup {doc}

\* the failures of register and login
email_taken == HTTPException(400, "Email already registered")

\* fault: an unknown email is reported as such
login_unknown_email == HTTPException(404, "User not found")

login_not_found == HTTPException(401, "Invalid credentials")

login_bad_password == HTTPException(401, "Invalid credentials")

\* fault: a missing user is answered as a missing resource
user_not_found_404 == HTTPException(404, "User not found")

\* lines 176-177 of get_current_user
user_not_found == HTTPException(401, "User not found for token")

\* fault: the stored document is answered as it is
me_whole_document(user) == [status |-> 200, user |-> user]

\* me(user)
me(user) ==
    [status |-> 200,
     user |-> UserPublic(str_oid(user._id), user.name, user.email,
                         user.avatar_url)]

\* fault: the scheme is not compared
ParseAuthorizationAnyScheme(authorization) ==
    IF ~authorization.some \/ authorization.val = <<>>
    THEN [ok |-> FALSE,
          err |-> HTTPException(401, "Missing Authorization header")]
    ELSE LET parts == Split1(authorization.val)
         IN  IF Len(parts) # 2
             THEN [ok |-> FALSE,
                   err |-> HTTPException(401, "Invalid Authorization header")]
             ELSE [ok |-> TRUE, token |-> parts[2]]

\* fault: a header that cannot be split is answered as a bad request
ParseAuthorizationBadRequest(authorization) ==
    IF ~authorization.some \/ authorization.val = <<>>
    THEN [ok |-> FALSE,
          err |-> HTTPException(401, "Missing Authorization header")]
    ELSE LET parts == Split1(authorization.val)
         IN  IF Len(parts) # 2
             THEN [ok |-> FALSE,
                   err |-> HTTPException(400, "Invalid Authorization header")]
             ELSE IF LowerStr(parts[1]) # <<"bearer">>
             THEN [ok |-> FALSE,
                   err |-> HTTPException(401, "Invalid auth scheme")]
             ELSE [ok |-> TRUE, token |-> parts[2]]

\* fault: the scheme is compared before the header is split
ParseAuthorizationSchemeFirst(authorization) ==
    IF ~authorization.some \/ authorization.val = <<>>
    THEN [ok |-> FALSE,
          err |-> HTTPException(401, "Missing Authorization header")]
    ELSE LET parts == Split1(authorization.val)
         IN  IF LowerStr(parts[1]) # <<"bearer">>
             THEN [ok |-> FALSE,
                   err |-> HTTPException(401, "Invalid auth scheme")]
             ELSE IF Len(parts) # 2
             THEN [ok |-> FALSE,
                   err |-> HTTPException(401, "Invalid Authorization header")]
             ELSE [ok |-> TRUE, token |-> parts[2]]

\* the header checks of get_current_user before the store is read:
\* an error response, or the token to look up
ParseAuthorization(authorization) ==
    IF ~authorization.some \/ authorization.val = <<>>
    THEN [ok |-> FALSE,
          err |-> HTTPException(401, "Missing Authorization header")]
    ELSE LET parts == Split1(authorization.val)
         IN  IF Len(parts) # 2
             THEN [ok |-> FALSE,
                   err |-> HTTPException(401, "Invalid Authorization header")]
             ELSE IF LowerStr(parts[1]) # <<"bearer">>
             THEN [ok |-> FALSE,
                   err |-> HTTPException(401, "Invalid auth scheme")]
             ELSE [ok |-> TRUE, token |-> parts[2]]

\* ---------------------------------------------------------------- state
\* users, sessions : the two collections;  now : the clock;
\* oid : identifiers assigned by the store (one salt is drawn per user);
\* rng : tokens drawn;
\* pc, payload, local, resp : per worker, the position in the handler, the
\*   request, the handler's local variables and the response;
\* registered : history, what each inserted user was registered with;
\* issued : history, the (token, user) pairs answered by register and login.
Idle == <<>>

Init ==
    /\ users = {}
    /\ sessions = {}
    /\ now = 0
    /\ oid = 0
    /\ rng = 0
    /\ pc = [r \in Workers |-> "idle"]
    /\ payload = [r \in Workers |-> Idle]
    /\ local = [r \in Workers |-> Idle]
    /\ resp = [r \in Workers |-> Idle]
    /\ registered = {}
    /\ issued = <<>>

\* requests that will still insert a user / a session
PendingUsers == Cardinality({r \in Workers : pc[r] = "reg_insert_user"})

PendingSessions ==
    Cardinality({r \in Workers :
        pc[r] \in {"reg_insert_user", "reg_insert_session", "login_insert"}})

RoomForUser == Cardinality(users) + PendingUsers < MaxUsers

RoomForSession == Cardinality(sessions) + PendingSessions < MaxSessions

\* a worker takes a request when it is free
Ready(r) == pc[r] = "idle"

Finish(r, response) ==
    /\ pc' = [pc EXCEPT ![r] = "done"]
    /\ resp' = [resp EXCEPT ![r] = response]

\* ------------------------------------------------------------- register
\* lines 104-106: the existence check
RegisterFind(r) ==
    /\ Ready(r)
    /\ \E name \in Names, email \in Emails, password \in Passwords :
        LET p == [op |-> "register", name |-> name, email |-> email,
                  password |-> password]
        IN  /\ payload' = [payload EXCEPT ![r] = p]
            /\ IF find_user_by_email(email) # {}
               THEN /\ Finish(r, email_taken)
               ELSE /\ RoomForUser /\ RoomForSession
                    /\ pc' = [pc EXCEPT ![r] = "reg_insert_user"]
                    /\ resp' = [resp EXCEPT ![r] = Idle]
    /\ local' = [local EXCEPT ![r] = Idle]
    /\ UNCHANGED <<users, sessions, now, oid, rng, registered, issued>>

\* lines 107-117: hash the password, insert the user document
RegisterInsertUser(r) ==
    /\ pc[r] = "reg_insert_user"
    /\  LET p == payload[r]
            hp == hash_password(p.password, None, token_hex(oid))
            doc == user_doc(p.name, p.email, hp, now)
            id == oid + 1
        IN  /\ users' = insert_user(doc, id)
            /\ registered' = registered \cup
                  {[id |-> id, email |-> p.email, password |-> p.password]}
            /\ oid' = id
            /\ local' = [local EXCEPT ![r] = [user_id |-> id, user_doc |-> doc]]
    /\ pc' = [pc EXCEPT ![r] = "reg_insert_session"]
    /\ UNCHANGED <<sessions, now, rng, payload, resp, issued>>

\* lines 118-127: mint the token, insert the session, answer
RegisterInsertSession(r) ==
    /\ pc[r] = "reg_insert_session"
    /\ LET l == local[r]
           token == token_urlsafe(rng)
           s == session_doc(str_oid(l.user_id), token, now)
           up == UserPublic(str_oid(l.user_id), l.user_doc.name,
                            l.user_doc.email, None)
       IN  /\ sessions' = insert_session(s)
           /\ rng' = rng + 1
           /\ Finish(r, AuthResponse(token, up))
           /\ issued' = Append(issued,
                 [op |-> "register", token |-> token, id |-> up.id,
                  email |-> payload[r].email,
                  password |-> payload[r].password, at |-> now])
    /\ UNCHANGED <<users, now, oid, payload, local, registered>>

\* ---------------------------------------------------------------- login
\* lines 137-142: look the user up, compare the digests
LoginFind(r) ==
    /\ Ready(r)
    /\ \E email \in Emails, password \in Passwords :
        LET p == [op |-> "login", email |-> email, password |-> password]
            found == find_user_by_email(email)
        IN  /\ payload' = [payload EXCEPT ![r] = p]
            /\ IF found = {}
               THEN /\ Finish(r, login_not_found)
                    /\ local' = [local EXCEPT ![r] = [user |-> None]]
               ELSE \E user \in found :
                    LET hp == hash_password(password,
                                  Some(user.password_salt), "unused")
                    IN  /\ local' = [local EXCEPT ![r] = [user |-> Some(user)]]
                        /\ IF hp.hashed # user.password_hash
                           THEN Finish(r, login_bad_password)
                           ELSE /\ RoomForSession
                                /\ pc' = [pc EXCEPT ![r] = "login_insert"]
                                /\ resp' = [resp EXCEPT ![r] = Idle]
    /\ UNCHANGED <<users, sessions, now, oid, rng, registered, issued>>

\* lines 143-152: mint the token, insert the session, answer
LoginInsertSession(r) ==
    /\ pc[r] = "login_insert"
    /\ LET user == local[r].user.val
           token == token_urlsafe(rng)
           s == session_doc(str_oid(user._id), token, now)
           up == UserPublic(str_oid(user._id), user.name, user.email,
                            user.avatar_url)
       IN  /\ sessions' = insert_session(s)
           /\ rng' = rng + 1
           /\ Finish(r, AuthResponse(token, up))
           /\ issued' = Append(issued,
                 [op |-> "login", token |-> token, id |-> up.id,
                  email |-> payload[r].email,
                  password |-> payload[r].password, at |-> now])
    /\ UNCHANGED <<users, now, oid, payload, local, registered>>

\* ------------------------------------------------- get_current_user / me
Schemes == {"Bearer", "bearer", "BEARER"}

\* the tokens handed out so far
KnownTokens == {s.token : s \in sessions}

\* the Authorization header values a client sends: none, "", "Bearer",
\* "Token", "Token abc", "Bearer ", a token that never was handed out under
\* each spelling of the scheme, and "Bearer <token>" for the tokens handed
\* out
Headers ==
    {None, Some(<<>>), Some(<<"Bearer">>), Some(<<"Token">>),
     Some(<<"Token", " ", "abc">>), Some(<<"Bearer", " ">>)}
    \cup {Some(<<sch, " ", "abc">>) : sch \in Schemes}
    \cup {Some(<<"Bearer", " ">> \o t) : t \in KnownTokens}

\* fault: the lookup removes the sessions that expired
ResolveFindSessionPurging(r) ==
    /\ Ready(r)
    /\ \E authorization \in Headers :
        LET parsed == ParseAuthorization(authorization)
        IN  /\ payload' = [payload EXCEPT
                              ![r] = [op |-> "me", authorization |-> authorization]]
            /\ IF ~parsed.ok
               THEN /\ Finish(r, parsed.err)
                    /\ local' = [local EXCEPT ![r] = Idle]
               ELSE LET found == find_session_by_token(parsed.token)
                    IN  IF found = {}
                        THEN /\ Finish(r, HTTPException(401, "Invalid token"))
                             /\ local' = [local EXCEPT ![r] = Idle]
                        ELSE \E session \in found :
                             /\ local' = [local EXCEPT
                                   ![r] = [session |-> session, at |-> now]]
                             /\ pc' = [pc EXCEPT ![r] = "me_find_user"]
                             /\ resp' = [resp EXCEPT ![r] = Idle]
    /\ sessions' = {s \in sessions : s.expires_at > now}
    /\ UNCHANGED <<users, now, oid, rng, registered, issued>>

\* lines 160-170: check the header, look the session up
ResolveFindSession(r) ==
    /\ Ready(r)
    /\ \E authorization \in Headers :
        LET parsed == ParseAuthorization(authorization)
        IN  /\ payload' = [payload EXCEPT
                              ![r] = [op |-> "me", authorization |-> authorization]]
            /\ IF ~parsed.ok
               THEN /\ Finish(r, parsed.err)
                    /\ local' = [local EXCEPT ![r] = Idle]
               ELSE LET found == find_session_by_token(parsed.token)
                    IN  IF found = {}
                        THEN /\ Finish(r, HTTPException(401, "Invalid token"))
                             /\ local' = [local EXCEPT ![r] = Idle]
                        ELSE \E session \in found :
                             /\ local' = [local EXCEPT
                                   ![r] = [session |-> session, at |-> now]]
                             /\ pc' = [pc EXCEPT ![r] = "me_find_user"]
                             /\ resp' = [resp EXCEPT ![r] = Idle]
    /\ UNCHANGED <<users, sessions, now, oid, rng, registered, issued>>

\* lines 171-183: look the user up, answer with the public projection
ResolveFindUser(r) ==
    /\ pc[r] = "me_find_user"
    /\ LET id == ObjectId(local[r].session.user_id)
           found == IF id.some THEN find_user_by_id(id.val) ELSE {}
       IN  IF found = {}
           THEN Finish(r, user_not_found)
           ELSE \E user \in found : Finish(r, me(user))
    /\ UNCHANGED <<users, sessions, now, oid, rng, payload, local, registered, issued>>

\* ------------------------------------------------------------ environment
\* the response is delivered, the worker is free for the next request
Return(r) ==
    /\ pc[r] = "done"
    /\ pc' = [pc EXCEPT ![r] = "idle"]
    /\ payload' = [payload EXCEPT ![r] = Idle]
    /\ local' = [local EXCEPT ![r] = Idle]
    /\ resp' = [resp EXCEPT ![r] = Idle]
    /\ UNCHANGED <<users, sessions, now, oid, rng, registered, issued>>

\* datetime.utcnow() advances; a request is served within one reading of
\* the weekly clock, so the clock moves between requests
Tick ==
    /\ now < MaxWeeks * DAYS
    /\ \A r \in Workers : pc[r] = "idle"
    /\ now' = now + DAYS
    /\ UNCHANGED <<users, sessions, oid, rng, pc, payload, local, resp, registered, issued>>

Step(r) ==
    \/ RegisterFind(r)
    \/ RegisterInsertUser(r)
    \/ RegisterInsertSession(r)
    \/ LoginFind(r)
    \/ LoginInsertSession(r)
    \/ ResolveFindSession(r)
    \/ ResolveFindUser(r)
    \/ Return(r)

Next == (\E r \in Workers : Step(r)) \/ Tick

\* requests served in parallel
Spec == Init /\ [][Next]_vars

\* requests executed one after another: a worker moves only while no other
\* request is in flight
Quiet(r) == \A q \in Workers \ {r} : pc[q] \in {"idle", "done"}

NextSeq == (\E r \in Workers : Quiet(r) /\ Step(r)) \/ Tick

SpecSeq == Init /\ [][NextSeq]_vars

\* ------------------------------------------------- outside the subsystem
\* no response is waiting to be delivered
Delivered == \A r \in Workers : pc[r] # "done"

\* a user record is removed by an operation outside this subsystem; its
\* sessions stay
ExtDeleteUser ==
    /\ Delivered
    /\ \E u \in users : users' = users \ {u}
    /\ UNCHANGED <<sessions, now, oid, rng, pc, payload, local, resp,
                   registered, issued>>

\* a user_id that ObjectId() rejects
BadUserId == <<"not-an-object-id">>

\* a session record whose user_id is not an identifier is written from
\* outside this subsystem
ExtBadSession ==
    /\ Delivered
    /\ RoomForSession
    /\ sessions' = insert_session(session_doc(BadUserId, token_urlsafe(rng), now))
    /\ rng' = rng + 1
    /\ UNCHANGED <<users, now, oid, pc, payload, local, resp, registered,
                   issued>>

NextExt == NextSeq \/ ExtDeleteUser \/ ExtBadSession

\* requests one after another, with records removed or written from outside
\* before or in the middle of a request
SpecExt == Init /\ [][NextExt]_vars

\* ---------------------------------------------------------- store failures
\* fault: the user inserted by the failing request is removed again
StoreFailureRollback(r) ==
    /\ pc[r] = "reg_insert_session"
    /\ Finish(r, HTTPException(500, "store failure"))
    /\ users' = {u \in users : u._id # local[r].user_id}
    /\ UNCHANGED <<sessions, now, oid, rng, payload, local, registered, issued>>

\* db["session"].insert_one of register raises: the handler's
\* `except Exception` answers 500 with str(e) as detail; nothing is undone
StoreFailure(r) ==
    /\ pc[r] = "reg_insert_session"
    /\ Finish(r, HTTPException(500, "store failure"))
    /\ UNCHANGED <<users, sessions, now, oid, rng, payload, local,
                   registered, issued>>

\* the steps of register and login, the session insert of register
\* working or failing
StepFail(r) ==
    \/ RegisterFind(r)
    \/ RegisterInsertUser(r)
    \/ RegisterInsertSession(r)
    \/ StoreFailure(r)
    \/ LoginFind(r)
    \/ LoginInsertSession(r)
    \/ Return(r)

\* register and login requests, one after another
NextFail == \E r \in Workers : Quiet(r) /\ StepFail(r)

SpecFail == Init /\ [][NextFail]_vars

\* -------------------------------------------------------- serialize_doc
\* a field value: an ObjectId, a datetime, a string (a sequence of atoms)
\* or a list of strings
OidValue(n) == [t |-> "ObjectId", v |-> <<ToString(n)>>]

DatetimeValue(day) == [t |-> "datetime", v |-> <<ToString(day)>>]

StrValue(atoms) == [t |-> "str", v |-> atoms]

ListValue(items) == [t |-> "list", v |-> items]

\* str(v): the hex form of an ObjectId, "YYYY-MM-DD HH:MM:SS" of a datetime
py_str(x) ==
    CASE x.t = "ObjectId" -> StrValue(<<"hex24">> \o x.v)
      [] x.t = "datetime" -> StrValue(<<"str">> \o x.v)
      [] x.t = "list"     -> StrValue(<<"repr">> \o x.v)
      [] OTHER            -> x

\* datetime.isoformat(): "YYYY-MM-DDTHH:MM:SS"
isoformat(x) == StrValue(<<"iso">> \o x.v)

\* the documents handed to serialize_doc: records as the store returns them
\* (_id, when present, is an ObjectId), with or without an id field
DocKeys == {"_id", "id", "created_at", "tags"}

FieldValues ==
    {DatetimeValue(0), DatetimeValue(DAYS), StrValue(<<"x">>),
     ListValue(<<"hiking">>)}

IdValues == {OidValue(1), OidValue(2)}

Docs ==
    {None} \cup
    {Some(f) : f \in UNION {[K -> IdValues \cup FieldValues] :
                              K \in SUBSET DocKeys}}

StoreDocs ==
    {doc \in Docs :
        doc.some => \A k \in DOMAIN doc.val :
                       (doc.val[k] \in IdValues) <=> (k = "_id")}

\* fault: the internal identifier is copied, not moved
serialize_doc_keeps_id(doc) ==
    IF ~doc.some \/ DOMAIN doc.val = {}
    THEN [result |-> doc, doc_after |-> doc]
    ELSE LET d0 == doc.val
             d1 == IF "_id" \in DOMAIN d0
                   THEN [k \in DOMAIN d0 \cup {"id"} |->
                           IF k = "id" THEN py_str(d0["_id"]) ELSE d0[k]]
                   ELSE d0
             d2 == [k \in DOMAIN d1 |->
                      IF d1[k].t = "datetime" THEN isoformat(d1[k]) ELSE d1[k]]
         IN  [result |-> Some(d2), doc_after |-> doc]

\* serialize_doc(doc): the value returned and the caller's document
\* afterwards (the function works on the copy d = dict(doc))
serialize_doc(doc) ==
    IF ~doc.some \/ DOMAIN doc.val = {}
    THEN [result |-> doc, doc_after |-> doc]
    ELSE LET d0 == doc.val
             d1 == IF "_id" \in DOMAIN d0
                   THEN [k \in (DOMAIN d0 \ {"_id"}) \cup {"id"} |->
                           IF k = "id" THEN py_str(d0["_id"]) ELSE d0[k]]
                   ELSE d0
             d2 == [k \in DOMAIN d1 |->
                      IF d1[k].t = "datetime" THEN isoformat(d1[k]) ELSE d1[k]]
         IN  [result |-> Some(d2), doc_after |-> doc]

\* the other workers are free
Alone(r) == \A q \in Workers \ {r} : pc[q] = "idle"

\* a route serializes a document read from the store
Serialize(r) ==
    /\ Ready(r)
    /\ \E doc \in StoreDocs :
        LET ret == serialize_doc(doc)
        IN  /\ payload' = [payload EXCEPT ![r] = [op |-> "serialize", doc |-> doc]]
            /\ local' = [local EXCEPT ![r] = [doc |-> ret.doc_after]]
            /\ Finish(r, [status |-> 200, body |-> ret.result])
    /\ UNCHANGED <<users, sessions, now, oid, rng, registered, issued>>

\* the serialized document is serialized again
Reserialize(r) ==
    /\ pc[r] = "done"
    /\ payload[r].op = "serialize"
    /\ LET ret == serialize_doc(resp[r].body)
       IN  /\ payload' = [payload EXCEPT
                            ![r] = [op |-> "serialize", doc |-> resp[r].body]]
           /\ local' = [local EXCEPT ![r] = [doc |-> ret.doc_after]]
           /\ Finish(r, [status |-> 200, body |-> ret.result])
    /\ UNCHANGED <<users, sessions, now, oid, rng, registered, issued>>

NextSerialize ==
    \E r \in Workers : Alone(r) /\ (Serialize(r) \/ Reserialize(r) \/ Return(r))

SpecSerialize == Init /\ [][NextSerialize]_vars

\* ------------------------------------------------------------ properties
\* a completed current-identity request of worker r
DoneMe(r) == pc[r] = "done" /\ payload[r].op = "me"

DoneRegister(r) == pc[r] = "done" /\ payload[r].op = "register"

DoneLogin(r) == pc[r] = "done" /\ payload[r].op = "login"

\* header r sent is "<scheme> <token of the k-th answer>", scheme some
\* spelling of bearer
SentToken(r, k) ==
    /\ DoneMe(r)
    /\ payload[r].authorization \in
           {Some(<<sch, " ">> \o issued[k].token) : sch \in Schemes}

Issued == 1..Len(issued)

InvalidToken == [status |-> 401, detail |-> "Invalid token"]

\* C1: a token answered by register or login resolves when the session is
\* looked up strictly before its expiry (creation + 7 days) and fails with
\* 401 "Invalid token" when it is looked up at or past the expiry.
C1_ExpiryEnforced ==
    \A r \in Workers : \A k \in Issued :
        SentToken(r, k) =>
            IF local[r].at < issued[k].at + DAYS
            THEN resp[r].status = 200
            ELSE resp[r] = InvalidToken

\* C2: a token answered by register, resolved before its expiry, yields the
\* user with the registered email and the identifier register answered,
\* whatever other requests were served in between.
C2_RegisterThenResolve ==
    \A r \in Workers : \A k \in Issued :
        (/\ SentToken(r, k)
         /\ issued[k].op = "register"
         /\ local[r].at < issued[k].at + DAYS)
        => /\ resp[r].status = 200
           /\ resp[r].user.email = issued[k].email
           /\ resp[r].user.id = issued[k].id

\* C2 witness: the first registration's token resolves to its user after a
\* second user was registered and another request was answered.
C2_Witness ==
    \E r \in Workers :
        /\ Len(issued) >= 2
        /\ issued[1].op = "register"
        /\ SentToken(r, 1)
        /\ local[r].at >= issued[2].at
        /\ local[r].at < issued[1].at + DAYS
        /\ Cardinality(users) = 2
        /\ resp[r].status = 200
        /\ resp[r].user.email = issued[1].email

\* a worker takes up a request of kind op in this step
Starts(r, op) == pc[r] = "idle" /\ pc'[r] # "idle" /\ payload'[r].op = op

EmailTaken == [status |-> 400, detail |-> "Email already registered"]

InvalidCredentials == [status |-> 401, detail |-> "Invalid credentials"]

\* C3: with requests executed one after another, register with an email
\* that already has a user record fails with 400 "Email already
\* registered" and changes neither collection, and the token of the first
\* registration resolves to the first user whenever it is presented.
C3_DuplicateEmail ==
    /\ [][\A r \in Workers :
            (/\ Starts(r, "register")
             /\ \E u \in users : u.email = payload'[r].email)
            => /\ pc'[r] = "done"
               /\ resp'[r] = EmailTaken
               /\ users' = users
               /\ sessions' = sessions]_vars
    /\ [](\A r \in Workers : \A k \in Issued :
            (SentToken(r, k) /\ issued[k].op = "register")
            => /\ resp[r].status = 200
               /\ resp[r].user.id = issued[k].id
               /\ resp[r].user.email = issued[k].email)

\* C3 witness: a second registration of the first user's email was refused
\* and the first registration's token resolves to the first user.
C3_Witness ==
    \E r, q \in Workers :
        /\ DoneRegister(r)
        /\ resp[r] = EmailTaken
        /\ Len(issued) >= 1
        /\ issued[1].op = "register"
        /\ issued[1].email = payload[r].email
        /\ SentToken(q, 1)
        /\ resp[q].status = 200
        /\ resp[q].user.id = issued[1].id

\* C4: a register request that has passed the existence check inserts its
\* user record and is answered 200 with a token, whatever was inserted
\* since the check; together with the witness, two records sharing one
\* email are reachable when two registrations interleave.
C4_InsertAfterCheck ==
    [][\A r \in Workers :
          /\ (pc[r] = "reg_insert_user" /\ pc'[r] # "reg_insert_user")
             => /\ pc'[r] = "reg_insert_session"
                /\ \E u \in users' \ users : u.email = payload[r].email
          /\ (pc[r] = "reg_insert_session" /\ pc'[r] # "reg_insert_session")
             => /\ pc'[r] = "done"
                /\ resp'[r].status = 200
                /\ resp'[r].token # <<>>
                /\ resp'[r].user.email = payload[r].email]_vars

\* C4 witness: both workers registered the same email concurrently, both
\* were answered 200 with different tokens, two user records share the
\* email.
C4_Witness ==
    \E r, q \in Workers :
        /\ r # q
        /\ DoneRegister(r) /\ DoneRegister(q)
        /\ payload[r].email = payload[q].email
        /\ resp[r].status = 200 /\ resp[q].status = 200
        /\ resp[r].token # resp[q].token
        /\ \E u, v \in users : u # v /\ u.email = v.email
                                 /\ u.email = payload[r].email

\* the user records with this email
WithEmail(email) == {u \in users : u.email = email}

\* C5 as claimed: for every account created by register(email, password),
\* login(email, p) succeeds exactly when p is the registration password and
\* otherwise fails with 401 "Invalid credentials", leaving the sessions
\* alone.
C5_LoginIffPassword ==
    [][\A r \in Workers :
          /\ Starts(r, "login")
             => \A a \in registered :
                  a.email = payload'[r].email
                  => IF payload'[r].password = a.password
                     THEN pc'[r] = "login_insert"
                     ELSE /\ pc'[r] = "done"
                          /\ resp'[r] = InvalidCredentials
                          /\ sessions' = sessions
          /\ (pc[r] = "login_insert" /\ pc'[r] # "login_insert")
             => /\ pc'[r] = "done"
                /\ resp'[r].status = 200
                /\ sessions \subseteq sessions']_vars

\* C5 amended: the same for every account whose email no other user record
\* shares when login looks the user up.
C5_LoginIffPasswordUnique ==
    [][\A r \in Workers :
          /\ Starts(r, "login")
             => \A a \in registered :
                  (/\ a.email = payload'[r].email
                   /\ Cardinality(WithEmail(a.email)) = 1)
                  => IF payload'[r].password = a.password
                     THEN pc'[r] = "login_insert"
                     ELSE /\ pc'[r] = "done"
                          /\ resp'[r] = InvalidCredentials
                          /\ sessions' = sessions
          /\ (pc[r] = "login_insert" /\ pc'[r] # "login_insert")
             => /\ pc'[r] = "done"
                /\ resp'[r].status = 200
                /\ sessions \subseteq sessions']_vars

\* C5 witness: a login with the wrong password was refused after a login
\* with the right one had succeeded on the same (only) account of that
\* email, and the token of the successful login resolves to the user.
C5_Witness ==
    \E r, q \in Workers : \E k \in Issued :
        /\ DoneLogin(r)
        /\ resp[r] = InvalidCredentials
        /\ local[r].user.some
        /\ Cardinality(WithEmail(payload[r].email)) = 1
        /\ issued[k].op = "login"
        /\ issued[k].email = payload[r].email
        /\ issued[k].password # payload[r].password
        /\ SentToken(q, k)
        /\ resp[q].status = 200
        /\ resp[q].user.id = issued[k].id

\* worker r completed a current-identity request that sent header h
SentHeader(r, h) == DoneMe(r) /\ payload[r].authorization = h

\* C6: in every reachable store state, resolve without Authorization
\* header fails with "Missing Authorization header", with "Token abc" with
\* "Invalid auth scheme", with "Bearer " (empty token) with "Invalid
\* token"; no session record has the empty string as token.
C6_HeaderFailures ==
    /\ \A r \in Workers :
        /\ SentHeader(r, None)
           => resp[r] = [status |-> 401,
                         detail |-> "Missing Authorization header"]
        /\ SentHeader(r, Some(<<"Token", " ", "abc">>))
           => resp[r] = [status |-> 401, detail |-> "Invalid auth scheme"]
        /\ SentHeader(r, Some(<<"Bearer", " ">>))
           => resp[r] = InvalidToken
    /\ \A s \in sessions : s.token # <<>>

\* C6 witness: with sessions stored, "Bearer " and "Token abc" were both
\* answered.
C6_Witness ==
    \E r, q \in Workers :
        /\ sessions # {}
        /\ SentHeader(r, Some(<<"Bearer", " ">>))
        /\ SentHeader(q, Some(<<"Token", " ", "abc">>))
        /\ resp[r] = InvalidToken
        /\ resp[q].detail = "Invalid auth scheme"

\* the session record the k-th answer stands for
SessionOf(k) ==
    [user_id |-> issued[k].id, token |-> issued[k].token,
     created_at |-> issued[k].at, expires_at |-> issued[k].at + DAYS]

\* C7: the tokens answered by register and login are pairwise distinct,
\* each keeps its session record as it was created and resolves to the user
\* it was answered with, also when the same user holds several; no step
\* removes or alters a session record.
C7_SessionsCoexist ==
    /\ [](/\ \A j, k \in Issued : j # k => issued[j].token # issued[k].token
          /\ \A k \in Issued : SessionOf(k) \in sessions
          /\ \A r \in Workers : \A k \in Issued :
                SentToken(r, k) => /\ resp[r].status = 200
                                   /\ resp[r].user.id = issued[k].id)
    /\ [][sessions \subseteq sessions']_vars

\* C7 witness: a user registered and then logged in; the two tokens differ
\* and both were resolved to that user.
C7_Witness ==
    \E r, q \in Workers : \E j, k \in Issued :
        /\ issued[j].op = "register"
        /\ issued[k].op = "login"
        /\ issued[j].id = issued[k].id
        /\ issued[j].token # issued[k].token
        /\ SentToken(r, j) /\ SentToken(q, k)
        /\ resp[r].status = 200 /\ resp[q].status = 200
        /\ resp[r].user.id = issued[j].id
        /\ resp[q].user.id = issued[j].id

\* worker r completed a login that was refused
RefusedLogin(r) == DoneLogin(r) /\ resp[r].status # 200

\* C8: a login refused because the email has no user record is answered
\* exactly as one refused because the password is wrong: 401 "Invalid
\* credentials".
C8_LoginFailuresAlike ==
    /\ \A r \in Workers : RefusedLogin(r) => resp[r] = InvalidCredentials
    /\ \A r, q \in Workers :
          RefusedLogin(r) /\ RefusedLogin(q) => resp[r] = resp[q]

\* C8 witness: one login was refused for an unknown email, another for a
\* wrong password.
C8_Witness ==
    \E r, q \in Workers :
        /\ RefusedLogin(r) /\ ~local[r].user.some
        /\ RefusedLogin(q) /\ local[q].user.some
        /\ resp[r] = resp[q]

\* worker r completed a current-identity request that was refused
RefusedMe(r) == DoneMe(r) /\ resp[r].status # 200

\* C9 as claimed: the responses of two refused resolves do not differ,
\* whatever the reasons.
C9_FailuresIndistinguishable ==
    \A r, q \in Workers : RefusedMe(r) /\ RefusedMe(q) => resp[r] = resp[q]

MeFailureDetails ==
    {"Missing Authorization header", "Invalid Authorization header",
     "Invalid auth scheme", "Invalid token", "User not found for token"}

\* C9 amended: every refused resolve is answered with status 401; the
\* detail names the reason.
C9_FailuresUnauthorized ==
    \A r \in Workers :
        RefusedMe(r) => /\ resp[r].status = 401
                        /\ resp[r].detail \in MeFailureDetails

\* C9 witness: two resolves were refused for different reasons, both 401.
C9_Witness ==
    \E r, q \in Workers :
        /\ RefusedMe(r) /\ RefusedMe(q)
        /\ resp[r].detail = "Invalid Authorization header"
        /\ resp[q].detail = "Invalid token"
        /\ resp[r].status = 401 /\ resp[q].status = 401

PublicFields == {"id", "name", "email", "avatar_url"}

\* C10: the user projection answered by register, login and me has the
\* fields id, name, email and avatar_url and no other, so neither
\* password_hash nor password_salt.
C10_PublicProjection ==
    \A r \in Workers :
        (pc[r] = "done" /\ resp[r].status = 200)
        => /\ DOMAIN resp[r].user = PublicFields
           /\ "password_hash" \notin DOMAIN resp[r].user
           /\ "password_salt" \notin DOMAIN resp[r].user

\* C10 witness: after a registration was answered, a login and a
\* current-identity request were answered with projections.
C10_Witness ==
    \E r, q \in Workers :
        /\ Len(issued) >= 2
        /\ issued[1].op = "register"
        /\ DoneLogin(r) /\ resp[r].status = 200
        /\ DoneMe(q) /\ resp[q].status = 200
        /\ DOMAIN resp[r].user = PublicFields
        /\ DOMAIN resp[q].user = PublicFields

UserNotFound == [status |-> 401, detail |-> "User not found for token"]

\* the user lookup of worker r is answered in this step
AnswersUserLookup(r) == pc[r] = "me_find_user" /\ pc'[r] = "done"

\* C11: when the session of a well-formed bearer token names a user_id
\* that no user record has (the user was removed, or the user_id is not an
\* identifier), resolve fails with 401 "User not found for token"; it
\* neither succeeds nor ends with a server error.
C11_UserNotFound ==
    [][\A r \in Workers :
          (/\ AnswersUserLookup(r)
           /\ ~\E u \in users : <<"hex24", u._id>> = local[r].session.user_id)
          => resp'[r] = UserNotFound]_vars

\* C11 witness: one resolve was refused because its session's user was
\* removed, another because its session's user_id is not an identifier.
C11_Witness ==
    \E r, q \in Workers :
        /\ DoneMe(r) /\ DoneMe(q)
        /\ resp[r] = UserNotFound /\ resp[q] = UserNotFound
        /\ \E a \in registered :
              /\ local[r].session.user_id = <<"hex24", a.id>>
              /\ ~\E u \in users : u._id = a.id
        /\ local[q].session.user_id = BadUserId

\* worker r holds the result of serialize_doc for payload[r].doc
DoneSerialize(r) == pc[r] = "done" /\ payload[r].op = "serialize"

\* C12: serialize_doc leaves its argument as it was; its result has no
\* "_id" field and no datetime value; serializing the result again returns
\* it unchanged.
C12_SerializeIdempotent ==
    /\ [](\A r \in Workers :
            DoneSerialize(r)
            => /\ local[r].doc = payload[r].doc
               /\ resp[r].body.some
                  => /\ "_id" \notin DOMAIN resp[r].body.val
                     /\ \A k \in DOMAIN resp[r].body.val :
                           resp[r].body.val[k].t # "datetime")
    /\ [][\A r \in Workers :
            (DoneSerialize(r) /\ pc'[r] = "done")
            => resp'[r].body = resp[r].body]_vars

\* C12 witness: a record with _id and a datetime was serialized, and its
\* result was serialized again with the same result.
C12_Witness ==
    \E r \in Workers :
        /\ DoneSerialize(r)
        /\ payload[r].doc = resp[r].body
        /\ resp[r].body.some
        /\ DOMAIN resp[r].body.val = {"id", "created_at"}
        /\ resp[r].body.val["id"] = StrValue(<<"hex24", "1">>)
        /\ resp[r].body.val["created_at"] = StrValue(<<"iso", ToString(DAYS)>>)

\* the first header or session check that header h fails against the
\* stored sessions, by its detail; "" when h passes them all
FirstFailedCheck(h) ==
    IF ~h.some \/ h.val = <<>> THEN "Missing Authorization header"
    ELSE IF \A i \in 1..Len(h.val) : h.val[i] # " "
    THEN "Invalid Authorization header"
    ELSE IF h.val[1] \notin Schemes THEN "Invalid auth scheme"
    ELSE IF ~\E s \in sessions : s.token = SubSeq(h.val, 3, Len(h.val))
    THEN "Invalid token"
    ELSE ""

\* worker r takes a resolve request in this step
TakesResolve(r) ==
    /\ pc[r] = "idle" /\ pc'[r] # "idle"
    /\ payload'[r].op = "me"

\* C13: resolve reports the first check that fails, in the order: header
\* absent or empty, no space between scheme and token (also for a lone word
\* that is not bearer), scheme other than bearer in any letter case, no
\* session with the token, no user for the session; a header that passes
\* the first four reaches the user lookup, so Bearer, bearer and BEARER are
\* all accepted.
C13_CheckOrder ==
    [][\A r \in Workers :
          /\ TakesResolve(r)
             => LET failed == FirstFailedCheck(payload'[r].authorization)
                IN  IF failed # ""
                    THEN /\ pc'[r] = "done"
                         /\ resp'[r] = [status |-> 401, detail |-> failed]
                    ELSE pc'[r] = "me_find_user"
          /\ AnswersUserLookup(r)
             => /\ FirstFailedCheck(payload[r].authorization) = ""
                /\ IF \E u \in users :
                          <<"hex24", u._id>> = local[r].session.user_id
                   THEN resp'[r].status = 200
                   ELSE resp'[r] = UserNotFound]_vars

\* C13 witness: a lone word that is not bearer was answered as a header
\* that cannot be split, and "BEARER abc" passed the scheme check and was
\* answered as an unknown token, with a session stored.
C13_Witness ==
    \E r, q \in Workers :
        /\ sessions # {}
        /\ SentHeader(r, Some(<<"Token">>))
        /\ resp[r] = [status |-> 401, detail |-> "Invalid Authorization header"]
        /\ SentHeader(q, Some(<<"BEARER", " ", "abc">>))
        /\ resp[q] = InvalidToken

\* worker r is answered in this step, with success, by register or login
Succeeds(r) ==
    /\ pc[r] # "done" /\ pc'[r] = "done"
    /\ payload'[r].op \in {"register", "login"}
    /\ resp'[r].status = 200

\* C14: no step of register, login or resolve removes or changes a stored
\* session: every session stored before a step is stored after it, expired
\* or not; a register or login that succeeds adds exactly one session.
C14_SessionsOnlyGrow ==
    [][/\ sessions \subseteq sessions'
       /\ \A r \in Workers :
             Succeeds(r) => Cardinality(sessions' \ sessions) = 1]_vars

\* C14 witness: a login succeeded at a time when an earlier session had
\* expired, and the expired session is still stored beside the new one.
C14_Witness ==
    \E r \in Workers : \E old, new \in sessions :
        /\ DoneLogin(r) /\ resp[r].status = 200
        /\ new.token = resp[r].token
        /\ old.expires_at <= new.created_at
        /\ old.expires_at <= now

\* C15: when requests are served one at a time, no two stored user records
\* have the same email.
C15_EmailsUnique ==
    \A u, v \in users : u.email = v.email => u = v

\* C15 witness: two users are stored, the second registration was answered
\* 200 and a further registration of a stored email was refused.
C15_Witness ==
    \E r, q \in Workers :
        /\ Cardinality(users) = 2
        /\ DoneRegister(r) /\ resp[r].status = 200
        /\ DoneRegister(q) /\ resp[q] = EmailTaken
        /\ \E u \in users : u.email = payload[q].email

\* worker r takes a step of its handler
Acts(r) == pc'[r] # pc[r] /\ pc'[r] # "idle"

\* the step of worker r refuses a register or a login
Refuses(r) ==
    /\ pc'[r] = "done"
    /\ payload'[r].op \in {"register", "login"}
    /\ resp'[r] \in {EmailTaken, InvalidCredentials}

\* C16: a register refused with "Email already registered", a login
\* refused with "Invalid credentials" and every step of a resolve, refused
\* or not, leave the user collection and the session collection as they
\* were.
C16_FailuresChangeNothing ==
    [][\A r \in Workers :
          (Acts(r) /\ (payload'[r].op = "me" \/ Refuses(r)))
          => users' = users /\ sessions' = sessions]_vars

\* C16 witness: with users and sessions stored, a register was refused for
\* a stored email and a resolve of a handed-out token was answered 200.
C16_Witness ==
    \E r, q \in Workers :
        /\ users # {} /\ sessions # {}
        /\ DoneRegister(r) /\ resp[r] = EmailTaken
        /\ DoneMe(q) /\ resp[q].status = 200
        /\ \E s \in sessions : s.expires_at <= now

\* user u was registered with the email and the password of the request
\* that was answered with issued[k]
CreatedFor(u, k) ==
    [id |-> u._id, email |-> issued[k].email,
     password |-> issued[k].password] \in registered

\* C17: as long as no user is removed from outside, every stored session
\* names, by user_id, a user that is stored, and that user is the one the
\* register or login request that created the session was made for.
C17_SessionsNameTheirUser ==
    \A s \in sessions :
        \E u \in users : \E k \in Issued :
            /\ s.user_id = <<"hex24", u._id>>
            /\ issued[k].token = s.token
            /\ u.email = issued[k].email
            /\ CreatedFor(u, k)

\* C17 witness: two sessions are stored, one created by register and one
\* by login, and both name a stored user.
C17_Witness ==
    \E s, t \in sessions : \E j, k \in Issued :
        /\ s # t
        /\ \E u \in users : s.user_id = <<"hex24", u._id>>
        /\ \E u \in users : t.user_id = <<"hex24", u._id>>
        /\ issued[j].token = s.token /\ issued[j].op = "register"
        /\ issued[k].token = t.token /\ issued[k].op = "login"

\* the registrations whose user was inserted and whose session insert
\* failed: no token was answered for them and their request has ended
Orphans ==
    {a \in registered :
        /\ ~\E k \in Issued : /\ issued[k].op = "register"
                               /\ issued[k].id = <<"hex24", a.id>>
        /\ ~\E r \in Workers : /\ pc[r] = "reg_insert_session"
                                /\ local[r].user_id = a.id}

\* the session insert of worker r's register fails in this step
SessionInsertFails(r) ==
    /\ pc[r] = "reg_insert_session" /\ pc'[r] = "done"
    /\ sessions' = sessions

\* C18: when the session insert of a register fails after its user insert,
\* the request is answered 500 without a token and the inserted user stays,
\* with no session; afterwards a register with that email is refused with
\* "Email already registered", and a login with that email and the chosen
\* password passes the credential check and, its session insert working,
\* is answered 200 for that user.
C18_NoRollback ==
    [][\A r \in Workers :
          /\ SessionInsertFails(r)
             => /\ resp'[r].status = 500
                /\ "token" \notin DOMAIN resp'[r]
                /\ users' = users
                /\ \E u \in users' : /\ u._id = local[r].user_id
                                      /\ u.email = payload[r].email
          /\ \A a \in Orphans :
                /\ (Starts(r, "register") /\ payload'[r].email = a.email)
                   => resp'[r] = EmailTaken
                /\ (/\ Starts(r, "login")
                    /\ payload'[r].email = a.email
                    /\ payload'[r].password = a.password)
                   => pc'[r] = "login_insert"
                /\ (/\ pc[r] = "login_insert" /\ pc'[r] = "done"
                    /\ payload[r].email = a.email
                    /\ sessions' # sessions)
                   => /\ resp'[r].status = 200
                      /\ resp'[r].user.id = <<"hex24", a.id>>]_vars

\* C18 witness: a registration's session insert failed; afterwards a
\* register with its email was refused and a login with its email and
\* password was answered 200 for the user it had inserted.
C18_Witness ==
    \E a \in Orphans : \E r, q \in Workers :
        /\ DoneRegister(r) /\ payload[r].email = a.email
        /\ resp[r] = EmailTaken
        /\ DoneLogin(q) /\ payload[q].email = a.email
        /\ payload[q].password = a.password
        /\ resp[q].status = 200
        /\ resp[q].user.id = <<"hex24", a.id>>

====
